---- MODULE Spec2Model ----
(***************************************************************************)
(* Model of salt/modules/sysmod.py: the "sys" execution module, which      *)
(* answers list and doc queries over the loader's function registries.     *)
(*                                                                         *)
(* A Python str is modelled as a sequence of one-character strings, so     *)
(* that startswith, endswith, split, sorted and fnmatch are computed       *)
(* character by character.  A registry (a dict of the loader) is a         *)
(* function from qualified names to entries.                               *)
(***************************************************************************)
EXTENDS Integers, Sequences, FiniteSets, TLC

\* ------------------------------------------------------------------ bounds

\* largest number of entries of a registry
MaxKeys == 2

\* largest number of patterns passed to one call (*args)
MaxArgs == 2

\* qualified names a registry may hold: two functions of module "a", one of
\* module "ab" (which has "a" as a raw prefix), and an unqualified name "a"
KeyUniverse ==
    { <<"a", ".", "b">>, <<"a", ".", "c">>, <<"a", "b", ".", "c">>, <<"a">> }

\* patterns a caller may pass: the empty string, a module, a module with its
\* dot, a qualified name, and globs with "*", "?" and a character class
PatternUniverse ==
    { <<>>, <<"a">>, <<"a", ".">>, <<"a", ".", "b">>,
      <<"a", ".", "*">>, <<"a", "*">>, <<"a", ".", "?">>,
      <<"a", ".", "[", "b", "]">> }

\* ------------------------------------------------------------------ str

\* ord(c) of the characters in use
Ord(c) ==
    CASE c = "!" -> 33
      [] c = "*" -> 42
      [] c = "-" -> 45
      [] c = "." -> 46
      [] c = "?" -> 63
      [] c = "[" -> 91
      [] c = "]" -> 93
      [] c = "a" -> 97
      [] c = "b" -> 98
      [] c = "c" -> 99

\* s < t for two str (code point order, a proper prefix is smaller)
RECURSIVE StrLess(_, _)
StrLess(s, t) ==
    IF t = <<>> THEN FALSE
    ELSE IF s = <<>> THEN TRUE
    ELSE IF Head(s) = Head(t) THEN StrLess(Tail(s), Tail(t))
    ELSE Ord(Head(s)) < Ord(Head(t))

\* sorted with the comparison reversed: descending list of the elements
RECURSIVE sorted_descending(_)
sorted_descending(S) ==
    IF S = {} THEN <<>>
    ELSE LET m == CHOOSE x \in S : \A y \in S \ {x} : StrLess(y, x)
         IN  <<m>> \o sorted_descending(S \ {m})

\* sorted(iterable of str): ascending list of the elements
RECURSIVE sorted(_)
sorted(S) ==
    IF S = {} THEN <<>>
    ELSE LET m == CHOOSE x \in S : \A y \in S \ {x} : StrLess(x, y)
         IN  <<m>> \o sorted(S \ {m})

\* s.startswith(prefix)
startswith(s, prefix) ==
    /\ Len(prefix) <= Len(s)
    /\ SubSeq(s, 1, Len(prefix)) = prefix

\* s.endswith('.')
endswith_dot(s) ==
    /\ s # <<>>
    /\ s[Len(s)] = "."

\* '*' in module
has_star(module) ==
    \E i \in 1..Len(module) : module[i] = "*"

\* s.split('.'): the list of the dot-separated components of s
RECURSIVE split(_)
split(s) ==
    IF \A i \in 1..Len(s) : s[i] # "."
    THEN <<s>>
    ELSE LET d == CHOOSE i \in 1..Len(s) :
                     /\ s[i] = "."
                     /\ \A j \in 1..(i - 1) : s[j] # "."
         IN  <<SubSeq(s, 1, d - 1)>> \o split(SubSeq(s, d + 1, Len(s)))

\* ------------------------------------------------------------------ fnmatch

\* membership of character ch in the body of a character class, with ranges
RECURSIVE in_items(_, _)
in_items(ch, items) ==
    IF items = <<>> THEN FALSE
    ELSE IF Len(items) >= 3 /\ items[2] = "-"
    THEN \/ (Ord(items[1]) <= Ord(ch) /\ Ord(ch) <= Ord(items[3]))
         \/ in_items(ch, SubSeq(items, 4, Len(items)))
    ELSE \/ ch = items[1]
         \/ in_items(ch, Tail(items))

\* [stuff] and [!stuff]
in_class(ch, stuff) ==
    IF Head(stuff) = "!" THEN ~in_items(ch, Tail(stuff))
    ELSE in_items(ch, stuff)

\* position of the "]" closing the class opened by pat[1] = "[", 0 if none
\* ("!" and a leading "]" are taken as members of the class)
class_end(pat) ==
    LET n  == Len(pat)
        j1 == IF 2 <= n /\ pat[2] = "!" THEN 3 ELSE 2
        j2 == IF j1 <= n /\ pat[j1] = "]" THEN j1 + 1 ELSE j1
        E  == {j \in j2..n : pat[j] = "]"}
    IN  IF E = {} THEN 0 ELSE CHOOSE j \in E : \A k \in E : j <= k

\* fnmatch.fnmatchcase(name, pat): the whole name matches the shell pattern
RECURSIVE fnmatchcase(_, _)
fnmatchcase(name, pat) ==
    IF pat = <<>> THEN name = <<>>
    ELSE IF Head(pat) = "*"
    THEN \E k \in 0..Len(name) :
            fnmatchcase(SubSeq(name, k + 1, Len(name)), Tail(pat))
    ELSE IF Head(pat) = "?"
    THEN /\ name # <<>>
         /\ fnmatchcase(Tail(name), Tail(pat))
    ELSE IF Head(pat) = "[" /\ class_end(pat) # 0
    THEN /\ name # <<>>
         /\ in_class(Head(name), SubSeq(pat, 2, class_end(pat) - 1))
         /\ fnmatchcase(Tail(name), SubSeq(pat, class_end(pat) + 1, Len(pat)))
    ELSE /\ name # <<>>
         /\ Head(name) = Head(pat)
         /\ fnmatchcase(Tail(name), Tail(pat))

\* fnmatch.filter(names, pat), as the set of the names kept
fnmatch_filter(names, pat) ==
    {name \in names : fnmatchcase(name, pat)}

\* ------------------------------------------------------------------ registries

\* __doc__ of the function registered under key k (every function has its own)
DocOf(k) == <<"doc">> \o k

\* the function of an entry has no __globals__ attribute
NoGlobals == <<"no __globals__">>

\* __globals__['__doc__'] of the function of an entry, when it has __globals__
ModuleDocs == { <<"moduledoc", "1">>, <<"moduledoc", "2">> }

KeySets == {K \in SUBSET KeyUniverse : Cardinality(K) <= MaxKeys}

\* __salt__, run_.functions, returners_, renderers_ (module docs are not read)
PlainRegistries ==
    { [k \in K |-> [doc |-> DocOf(k), moduleDoc |-> NoGlobals]] : K \in KeySets }

\* st_.states as read by state_doc
StateRegistries ==
    UNION { { [k \in K |-> [doc |-> DocOf(k), moduleDoc |-> g[k]]] :
                g \in [K -> ModuleDocs \cup {NoGlobals}] } : K \in KeySets }

\* the orders in which iterating a dict with the keys K may yield them
Orders(K) ==
    {o \in [1..Cardinality(K) -> K] : \A i, j \in DOMAIN o : o[i] = o[j] => i = j}

\* the argument lists of a call
ArgLists == UNION { [1..n -> PatternUniverse] : n \in 0..MaxArgs }

\* hasattr(R[fun], '__globals__')
has_globals(R, fun) == R[fun].moduleDoc # NoGlobals

\* docs = {}
EmptyDocs == [k \in {} |-> NoGlobals]

\* salt.utils.doc.strip_rst(docs): rewrites every docstring, keeps the keys
strip_rst(docs) ==
    [k \in DOMAIN docs |-> <<"stripped">> \o docs[k]]

\* ------------------------------------------------------------------ doc queries

\* module + '.' if not module.endswith('.') else module
with_dot(module) ==
    IF endswith_dot(module) THEN module ELSE module \o <<".">>

\* target_mod without the trailing-dot normalisation
target_mod_raw(module) ==
    module

\* target_mod with the dot appended to the empty string too
target_mod_dot_always(module) ==
    IF has_star(module) THEN module ELSE with_dot(module)

\* target_mod of doc, state_doc, runner_doc and returner_doc
target_mod(module) ==
    IF has_star(module) THEN module
    ELSE IF module # <<>> THEN with_dot(module)
    ELSE <<>>

\* the keys one pattern selects in doc
doc_selected(R, module) ==
    IF has_star(module)
    THEN fnmatch_filter(DOMAIN R, target_mod(module))
    ELSE {fun \in DOMAIN R : fun = module \/ startswith(fun, target_mod(module))}

\* docs after docs[fun] = R[fun].__doc__ for every fun of S
set_docs(docs, R, S) ==
    [fun \in S |-> R[fun].doc] @@ docs

\* doc_loop keeping only what the last pattern selects
RECURSIVE doc_loop_last(_, _, _)
doc_loop_last(R, args, docs) ==
    IF args = <<>> THEN docs
    ELSE doc_loop_last(R, Tail(args),
                       set_docs(EmptyDocs, R, doc_selected(R, Head(args))))

RECURSIVE doc_loop(_, _, _)
doc_loop(R, args, docs) ==
    IF args = <<>> THEN docs
    ELSE doc_loop(R, Tail(args), set_docs(docs, R, doc_selected(R, Head(args))))

\* doc without the "if not args" branch
doc_without_all(R, args) ==
    strip_rst(doc_loop(R, args, EmptyDocs))

doc(R, args) ==
    IF args = <<>>
    THEN strip_rst(set_docs(EmptyDocs, R, DOMAIN R))
    ELSE strip_rst(doc_loop(R, args, EmptyDocs))

\* the keys one pattern selects in runner_doc
runner_doc_selected(R, module) ==
    IF has_star(module)
    THEN fnmatch_filter(DOMAIN R, target_mod(module))
    ELSE {fun \in DOMAIN R : fun = module \/ startswith(fun, target_mod(module))}

RECURSIVE runner_doc_loop(_, _, _)
runner_doc_loop(R, args, docs) ==
    IF args = <<>> THEN docs
    ELSE runner_doc_loop(R, Tail(args),
                         set_docs(docs, R, runner_doc_selected(R, Head(args))))

runner_doc(R, args) ==
    IF args = <<>>
    THEN strip_rst(set_docs(EmptyDocs, R, DOMAIN R))
    ELSE strip_rst(runner_doc_loop(R, args, EmptyDocs))

\* the keys one pattern selects in returner_doc: both branches scan by prefix
returner_doc_selected(R, module) ==
    IF has_star(module)
    THEN {fun \in DOMAIN R : fun = module \/ startswith(fun, target_mod(module))}
    ELSE {fun \in DOMAIN R : fun = module \/ startswith(fun, target_mod(module))}

RECURSIVE returner_doc_loop(_, _, _)
returner_doc_loop(R, args, docs) ==
    IF args = <<>> THEN docs
    ELSE returner_doc_loop(R, Tail(args),
                           set_docs(docs, R, returner_doc_selected(R, Head(args))))

returner_doc(R, args) ==
    IF args = <<>>
    THEN strip_rst(set_docs(EmptyDocs, R, DOMAIN R))
    ELSE strip_rst(returner_doc_loop(R, args, EmptyDocs))

\* the keys one pattern selects in renderer_doc: without '*', every key
renderer_doc_selected(R, module) ==
    IF has_star(module)
    THEN fnmatch_filter(DOMAIN R, module)
    ELSE DOMAIN R

RECURSIVE renderer_doc_loop(_, _, _)
renderer_doc_loop(R, args, docs) ==
    IF args = <<>> THEN docs
    ELSE renderer_doc_loop(R, Tail(args),
                           set_docs(docs, R, renderer_doc_selected(R, Head(args))))

renderer_doc(R, args) ==
    IF args = <<>>
    THEN strip_rst(set_docs(EmptyDocs, R, DOMAIN R))
    ELSE strip_rst(renderer_doc_loop(R, args, EmptyDocs))

\* ------------------------------------------------------------------ state_doc

\* docs[state] = module doc of fun, if fun has __globals__
set_module_doc(docs, R, state, fun) ==
    IF has_globals(R, fun) THEN (state :> R[fun].moduleDoc) @@ docs ELSE docs

\* docs[state] = module doc of fun, if state is not in docs yet
set_module_doc_once(docs, R, state, fun) ==
    IF state \notin DOMAIN docs THEN set_module_doc(docs, R, state, fun) ELSE docs

\* docs[fun] = R[fun].__doc__
set_doc(docs, R, fun) ==
    (fun :> R[fun].doc) @@ docs

\* "if not args" loop of state_doc over the keys in iteration order
RECURSIVE state_doc_all(_, _, _)
state_doc_all(R, funs, docs) ==
    IF funs = <<>> THEN docs
    ELSE LET fun   == Head(funs)
             state == split(fun)[1]
         IN  state_doc_all(R, Tail(funs),
                 set_doc(set_module_doc_once(docs, R, state, fun), R, fun))

\* loop of state_doc over fnmatch.filter(st_.states, target_mod)
RECURSIVE state_doc_glob(_, _, _)
state_doc_glob(R, funs, docs) ==
    IF funs = <<>> THEN docs
    ELSE LET fun   == Head(funs)
             state == split(fun)[1]
         IN  state_doc_glob(R, Tail(funs),
                 set_doc(set_module_doc(docs, R, state, fun), R, fun))

\* loop of state_doc over st_.states for a pattern without '*'
RECURSIVE state_doc_prefix(_, _, _, _)
state_doc_prefix(R, funs, module, docs) ==
    IF funs = <<>> THEN docs
    ELSE LET fun   == Head(funs)
             state == split(module)[1]
         IN  IF fun = module \/ startswith(fun, target_mod(module))
             THEN state_doc_prefix(R, Tail(funs), module,
                      set_doc(set_module_doc_once(docs, R, state, fun), R, fun))
             ELSE state_doc_prefix(R, Tail(funs), module, docs)

RECURSIVE state_doc_loop(_, _, _, _)
state_doc_loop(R, order, args, docs) ==
    IF args = <<>> THEN docs
    ELSE LET module == Head(args)
         IN  IF has_star(module)
             THEN state_doc_loop(R, order, Tail(args),
                      state_doc_glob(R,
                          SelectSeq(order,
                              LAMBDA fun : fnmatchcase(fun, target_mod(module))),
                          docs))
             ELSE state_doc_loop(R, order, Tail(args),
                      state_doc_prefix(R, order, module, docs))

\* order: the order in which iterating st_.states yields its keys
state_doc(R, order, args) ==
    IF args = <<>>
    THEN strip_rst(state_doc_all(R, order, EmptyDocs))
    ELSE strip_rst(state_doc_loop(R, order, args, EmptyDocs))

\* ------------------------------------------------------------------ list functions

\* list_functions with the pattern used as the prefix as given
list_functions_selected_raw(R, module) ==
    IF has_star(module)
    THEN fnmatch_filter(DOMAIN R, module)
    ELSE {func \in DOMAIN R : startswith(func, module)}

\* the keys one pattern selects in list_functions
list_functions_selected(R, module) ==
    IF has_star(module)
    THEN fnmatch_filter(DOMAIN R, module)
    ELSE LET prefix == IF module # <<>> THEN with_dot(module) ELSE module
         IN  {func \in DOMAIN R : startswith(func, prefix)}

RECURSIVE list_functions_loop(_, _, _)
list_functions_loop(R, args, names) ==
    IF args = <<>> THEN names
    ELSE list_functions_loop(R, Tail(args), names \cup list_functions_selected(R, Head(args)))

list_functions(R, args) ==
    IF args = <<>>
    THEN sorted(DOMAIN R)
    ELSE sorted(list_functions_loop(R, args, {}))

\* the keys one pattern selects in list_state_functions
list_state_functions_selected(R, module) ==
    IF has_star(module)
    THEN fnmatch_filter(DOMAIN R, module)
    ELSE LET prefix == IF module # <<>> THEN with_dot(module) ELSE module
         IN  {func \in DOMAIN R : startswith(func, prefix)}

RECURSIVE list_state_functions_loop(_, _, _)
list_state_functions_loop(R, args, names) ==
    IF args = <<>> THEN names
    ELSE list_state_functions_loop(R, Tail(args), names \cup list_state_functions_selected(R, Head(args)))

list_state_functions(R, args) ==
    IF args = <<>>
    THEN sorted(DOMAIN R)
    ELSE sorted(list_state_functions_loop(R, args, {}))

\* the keys one pattern selects in list_runner_functions
list_runner_functions_selected(R, module) ==
    IF has_star(module)
    THEN fnmatch_filter(DOMAIN R, module)
    ELSE LET prefix == IF module # <<>> THEN with_dot(module) ELSE module
         IN  {func \in DOMAIN R : startswith(func, prefix)}

RECURSIVE list_runner_functions_loop(_, _, _)
list_runner_functions_loop(R, args, names) ==
    IF args = <<>> THEN names
    ELSE list_runner_functions_loop(R, Tail(args), names \cup list_runner_functions_selected(R, Head(args)))

list_runner_functions(R, args) ==
    IF args = <<>>
    THEN sorted(DOMAIN R)
    ELSE sorted(list_runner_functions_loop(R, args, {}))

\* the keys one pattern selects in list_returner_functions: both branches
\* scan by prefix, and a pattern with '*' is used as the prefix unchanged
list_returner_functions_selected(R, module) ==
    IF has_star(module)
    THEN {func \in DOMAIN R : startswith(func, module)}
    ELSE LET prefix == IF module # <<>> THEN with_dot(module) ELSE module
         IN  {func \in DOMAIN R : startswith(func, prefix)}

RECURSIVE list_returner_functions_loop(_, _, _)
list_returner_functions_loop(R, args, names) ==
    IF args = <<>> THEN names
    ELSE list_returner_functions_loop(R, Tail(args),
             names \cup list_returner_functions_selected(R, Head(args)))

list_returner_functions(R, args) ==
    IF args = <<>>
    THEN sorted(DOMAIN R)
    ELSE sorted(list_returner_functions_loop(R, args, {}))

\* ------------------------------------------------------------------ list modules

\* module_names without the "len(comps) < 2" test
module_names_unchecked(funcs) ==
    {split(func)[1] : func \in funcs}

\* comps = func.split('.'); names with fewer than 2 components are skipped,
\* the others contribute comps[0]
module_names(funcs) ==
    {split(func)[1] : func \in {f \in funcs : Len(split(f)) >= 2}}

RECURSIVE list_modules_loop(_, _, _)
list_modules_loop(R, args, modules) ==
    IF args = <<>> THEN modules
    ELSE list_modules_loop(R, Tail(args),
             modules \cup module_names(fnmatch_filter(DOMAIN R, Head(args))))

list_modules(R, args) ==
    IF args = <<>>
    THEN sorted(module_names(DOMAIN R))
    ELSE sorted(list_modules_loop(R, args, {}))

RECURSIVE list_state_modules_loop(_, _, _)
list_state_modules_loop(R, args, modules) ==
    IF args = <<>> THEN modules
    ELSE list_state_modules_loop(R, Tail(args),
             modules \cup module_names(fnmatch_filter(DOMAIN R, Head(args))))

list_state_modules(R, args) ==
    IF args = <<>>
    THEN sorted(module_names(DOMAIN R))
    ELSE sorted(list_state_modules_loop(R, args, {}))

RECURSIVE list_runners_loop(_, _, _)
list_runners_loop(R, args, modules) ==
    IF args = <<>> THEN modules
    ELSE list_runners_loop(R, Tail(args),
             modules \cup module_names(fnmatch_filter(DOMAIN R, Head(args))))

list_runners(R, args) ==
    IF args = <<>>
    THEN sorted(module_names(DOMAIN R))
    ELSE sorted(list_runners_loop(R, args, {}))

RECURSIVE list_returners_loop(_, _, _)
list_returners_loop(R, args, modules) ==
    IF args = <<>> THEN modules
    ELSE list_returners_loop(R, Tail(args),
             modules \cup module_names(fnmatch_filter(DOMAIN R, Head(args))))

list_returners(R, args) ==
    IF args = <<>>
    THEN sorted(module_names(DOMAIN R))
    ELSE sorted(list_returners_loop(R, args, {}))

\* list_renderers adds the renderer keys themselves
RECURSIVE list_renderers_loop(_, _, _)
list_renderers_loop(R, args, ren) ==
    IF args = <<>> THEN ren
    ELSE list_renderers_loop(R, Tail(args),
             ren \cup fnmatch_filter(DOMAIN R, Head(args)))

list_renderers(R, args) ==
    IF args = <<>>
    THEN sorted(DOMAIN R)
    ELSE sorted(list_renderers_loop(R, args, {}))

\* ------------------------------------------------------------------ state machine

VARIABLES
    query,      \* the function of the module that was called, "idle" before
    args,       \* the patterns of the call (*args)
    registry,   \* the registry the call read
    order,      \* state_doc: the order in which st_.states yielded its keys
    result      \* the value the call returned

vars == <<query, args, registry, order, result>>

DocQueries == {"doc", "state_doc", "runner_doc", "returner_doc", "renderer_doc"}

ListFunctionQueries ==
    {"list_functions", "list_state_functions", "list_runner_functions",
     "list_returner_functions"}

ListModuleQueries ==
    {"list_modules", "list_state_modules", "list_runners", "list_returners",
     "list_renderers"}

Init ==
    /\ query = "idle"
    /\ args \in ArgLists
    /\ registry = EmptyDocs
    /\ order = <<>>
    /\ result = <<>>

Call_doc ==
    /\ query = "idle"
    /\ \E R \in PlainRegistries :
          /\ registry' = R
          /\ result' = doc(R, args)
    /\ query' = "doc"
    /\ UNCHANGED <<args, order>>

Call_state_doc ==
    /\ query = "idle"
    /\ \E R \in StateRegistries :
          \E o \in Orders(DOMAIN R) :
             /\ registry' = R
             /\ order' = o
             /\ result' = state_doc(R, o, args)
    /\ query' = "state_doc"
    /\ UNCHANGED args

Call_runner_doc ==
    /\ query = "idle"
    /\ \E R \in PlainRegistries :
          /\ registry' = R
          /\ result' = runner_doc(R, args)
    /\ query' = "runner_doc"
    /\ UNCHANGED <<args, order>>

Call_returner_doc ==
    /\ query = "idle"
    /\ \E R \in PlainRegistries :
          /\ registry' = R
          /\ result' = returner_doc(R, args)
    /\ query' = "returner_doc"
    /\ UNCHANGED <<args, order>>

Call_renderer_doc ==
    /\ query = "idle"
    /\ \E R \in PlainRegistries :
          /\ registry' = R
          /\ result' = renderer_doc(R, args)
    /\ query' = "renderer_doc"
    /\ UNCHANGED <<args, order>>

Call_list_functions ==
    /\ query = "idle"
    /\ \E R \in PlainRegistries :
          /\ registry' = R
          /\ result' = list_functions(R, args)
    /\ query' = "list_functions"
    /\ UNCHANGED <<args, order>>

Call_list_modules ==
    /\ query = "idle"
    /\ \E R \in PlainRegistries :
          /\ registry' = R
          /\ result' = list_modules(R, args)
    /\ query' = "list_modules"
    /\ UNCHANGED <<args, order>>

Call_list_state_functions ==
    /\ query = "idle"
    /\ \E R \in PlainRegistries :
          /\ registry' = R
          /\ result' = list_state_functions(R, args)
    /\ query' = "list_state_functions"
    /\ UNCHANGED <<args, order>>

Call_list_state_modules ==
    /\ query = "idle"
    /\ \E R \in PlainRegistries :
          /\ registry' = R
          /\ result' = list_state_modules(R, args)
    /\ query' = "list_state_modules"
    /\ UNCHANGED <<args, order>>

Call_list_runners ==
    /\ query = "idle"
    /\ \E R \in PlainRegistries :
          /\ registry' = R
          /\ result' = list_runners(R, args)
    /\ query' = "list_runners"
    /\ UNCHANGED <<args, order>>

Call_list_runner_functions ==
    /\ query = "idle"
    /\ \E R \in PlainRegistries :
          /\ registry' = R
          /\ result' = list_runner_functions(R, args)
    /\ query' = "list_runner_functions"
    /\ UNCHANGED <<args, order>>

Call_list_returners ==
    /\ query = "idle"
    /\ \E R \in PlainRegistries :
          /\ registry' = R
          /\ result' = list_returners(R, args)
    /\ query' = "list_returners"
    /\ UNCHANGED <<args, order>>

Call_list_returner_functions ==
    /\ query = "idle"
    /\ \E R \in PlainRegistries :
          /\ registry' = R
          /\ result' = list_returner_functions(R, args)
    /\ query' = "list_returner_functions"
    /\ UNCHANGED <<args, order>>

Call_list_renderers ==
    /\ query = "idle"
    /\ \E R \in PlainRegistries :
          /\ registry' = R
          /\ result' = list_renderers(R, args)
    /\ query' = "list_renderers"
    /\ UNCHANGED <<args, order>>

Next ==
    \/ Call_doc
    \/ Call_state_doc
    \/ Call_runner_doc
    \/ Call_returner_doc
    \/ Call_renderer_doc
    \/ Call_list_functions
    \/ Call_list_modules
    \/ Call_list_state_functions
    \/ Call_list_state_modules
    \/ Call_list_runners
    \/ Call_list_runner_functions
    \/ Call_list_returners
    \/ Call_list_returner_functions
    \/ Call_list_renderers

Spec == Init /\ [][Next]_vars

\* ------------------------------------------------------------------ properties

\* the elements of a list
Elements(seq) == {seq[i] : i \in 1..Len(seq)}

\* a list of str in strictly ascending order
StrictlyAscending(seq) ==
    \A i \in 1..(Len(seq) - 1) : StrLess(seq[i], seq[i + 1])

\* the qualified names: the keys with a module segment before a first '.'
HasDot(k) == \E i \in 1..Len(k) : k[i] = "."

\* the text of k before its first '.'
ModuleSegment(k) ==
    SubSeq(k, 1, (CHOOSE i \in 1..Len(k) :
                     k[i] = "." /\ \A j \in 1..(i - 1) : k[j] # ".") - 1)

\* the dotted prefix of a pattern: p itself if it ends with '.', else p + '.'
DottedPrefix(p) ==
    IF p # <<>> /\ p[Len(p)] = "." THEN p ELSE p \o <<".">>

\* the keys of K that equal p or start with the dotted prefix of p
DotSafeSelection(K, p) ==
    {k \in K : k = p \/ startswith(k, DottedPrefix(p))}

\* the keys a query returned: the elements of a list, the keys of a mapping
Returned ==
    IF query \in DocQueries THEN DOMAIN result ELSE Elements(result)

\* C1: the list returned by every list query is in strictly ascending order
\* (so it holds no duplicate), and every element a list-functions query
\* returns is a key of the registry it read.
C1_ListsSortedAndUnique ==
    /\ query \in ListFunctionQueries \cup ListModuleQueries
          => StrictlyAscending(result)
    /\ query \in ListFunctionQueries
          => Elements(result) \subseteq DOMAIN registry

\* two different patterns of one call select the same name, and the sorted
\* result has two elements
C1_Witness ==
    /\ query = "list_functions"
    /\ Len(args) = 2
    /\ args[1] # args[2]
    /\ list_functions_selected(registry, args[1])
          \cap list_functions_selected(registry, args[2]) # {}
    /\ Len(result) = 2

\* C2: with no pattern, a list-functions query returns all the keys of the
\* registry in ascending order, and doc, runner_doc, returner_doc and
\* renderer_doc return a mapping whose keys are all the keys of the registry.
C2_NoPatternSelectsAll ==
    /\ (query \in ListFunctionQueries /\ args = <<>>)
          => /\ Elements(result) = DOMAIN registry
             /\ Len(result) = Cardinality(DOMAIN registry)
             /\ StrictlyAscending(result)
    /\ (query \in {"doc", "runner_doc", "returner_doc", "renderer_doc"}
           /\ args = <<>>)
          => DOMAIN result = DOMAIN registry

\* doc called with no pattern on a registry of two entries
C2_Witness ==
    /\ query = "doc"
    /\ args = <<>>
    /\ Cardinality(DOMAIN registry) >= 2
    /\ DOMAIN result = DOMAIN registry

\* C3: a list-functions query called with one pattern that is a qualified
\* name present in the registry returns a list that contains that name.
C3_ExactMatchListed ==
    (/\ query \in ListFunctionQueries
     /\ Len(args) = 1
     /\ args[1] \in DOMAIN registry
     /\ HasDot(args[1])
     /\ ~has_star(args[1]))
       => args[1] \in Elements(result)

\* C4: in doc, runner_doc and returner_doc a non-empty pattern p without '*'
\* selects exactly the keys equal to p or starting with the dotted prefix of
\* p; with the keys a.b and ab.c the pattern a selects a.b only, as a. does.
C4_DotSafePrefix ==
    /\ (/\ query \in {"doc", "runner_doc", "returner_doc"}
        /\ Len(args) = 1
        /\ args[1] # <<>>
        /\ ~has_star(args[1]))
          => DOMAIN result = DotSafeSelection(DOMAIN registry, args[1])
    /\ (/\ query \in {"doc", "runner_doc", "returner_doc"}
        /\ DOMAIN registry = { <<"a", ".", "b">>, <<"a", "b", ".", "c">> }
        /\ args \in { << <<"a">> >>, << <<"a", ".">> >> })
          => DOMAIN result = { <<"a", ".", "b">> }

\* doc('a') on the keys a.b and ab.c returned a.b only
C4_Witness ==
    /\ query = "doc"
    /\ args = << <<"a">> >>
    /\ DOMAIN registry = { <<"a", ".", "b">>, <<"a", "b", ".", "c">> }
    /\ DOMAIN result = { <<"a", ".", "b">> }

\* the pattern m + '.*' for a module name m free of glob characters
IsModuleGlob(p) ==
    /\ Len(p) >= 3
    /\ p[Len(p)] = "*"
    /\ p[Len(p) - 1] = "."
    /\ \A i \in 1..(Len(p) - 2) : p[i] \notin {"*", "?", "[", "]", "."}

\* the keys of K whose module segment is the module of the pattern m + '.*'
KeysOfModule(K, p) ==
    {k \in K : HasDot(k) /\ ModuleSegment(k) = SubSeq(p, 1, Len(p) - 2)}

\* C5: on the execution, state, runner and returner registries, the
\* list-functions query and the doc query called with the one pattern m.*
\* select exactly the function keys whose module segment is m (state_doc
\* returns in addition the key m of the module doc).
C5_ModuleGlobRoundTrip ==
    /\ (/\ query \in ListFunctionQueries
              \cup {"doc", "runner_doc", "returner_doc"}
        /\ Len(args) = 1
        /\ IsModuleGlob(args[1]))
          => Returned = KeysOfModule(DOMAIN registry, args[1])
    /\ (/\ query = "state_doc"
        /\ Len(args) = 1
        /\ IsModuleGlob(args[1]))
          => /\ KeysOfModule(DOMAIN registry, args[1]) \subseteq Returned
             /\ Returned \subseteq KeysOfModule(DOMAIN registry, args[1])
                                      \cup {SubSeq(args[1], 1, Len(args[1]) - 2)}

\* a pattern with '?' or a '[...]' class and no '*'
IsGlobWithoutStar(p) ==
    /\ ~has_star(p)
    /\ \/ \E i \in 1..Len(p) : p[i] = "?"
       \/ \E i \in 1..Len(p) :
             p[i] = "[" /\ class_end(SubSeq(p, i, Len(p))) # 0

\* C6: in doc and list_functions a pattern with '?' or a character class and
\* no '*' selects exactly the keys that glob-match the whole pattern.
C6_AllMetacharactersAreGlobs ==
    (/\ query \in {"doc", "list_functions"}
     /\ Len(args) = 1
     /\ IsGlobWithoutStar(args[1]))
       => Returned = {k \in DOMAIN registry : fnmatchcase(k, args[1])}

\* the keys a list-modules query selects: all of them with no pattern, else
\* those that glob-match one of the patterns
GlobSelected ==
    IF args = <<>> THEN DOMAIN registry
    ELSE {k \in DOMAIN registry :
             \E i \in 1..Len(args) : fnmatchcase(k, args[i])}

\* C7 as stated: every list-modules query, list_renderers included, returns
\* the sorted module segments of the selected keys that have a '.'.
C7_ModuleSegmentsEverywhere ==
    query \in ListModuleQueries
       => /\ StrictlyAscending(result)
          /\ Elements(result)
                = {ModuleSegment(k) : k \in {x \in GlobSelected : HasDot(x)}}

\* C7 (amended): list_modules, list_state_modules, list_runners and
\* list_returners return the sorted module segments of the selected keys that
\* have a '.', a key without '.' contributing nothing; list_renderers returns
\* the sorted selected keys themselves, whole, with or without a '.'.
C7_ModuleSegmentsButRenderers ==
    /\ query \in ListModuleQueries \ {"list_renderers"}
          => /\ StrictlyAscending(result)
             /\ Elements(result)
                   = {ModuleSegment(k) : k \in {x \in GlobSelected : HasDot(x)}}
    /\ query = "list_renderers"
          => /\ StrictlyAscending(result)
             /\ Elements(result) = GlobSelected

\* list_modules('a*') selected the unqualified key a and the key ab.c and
\* returned the module ab only
C7_Witness ==
    /\ query = "list_modules"
    /\ args = << <<"a", "*">> >>
    /\ DOMAIN registry = { <<"a">>, <<"a", "b", ".", "c">> }
    /\ result = << <<"a", "b">> >>

\* state_doc: key k is matched by pattern p (a glob with '*', else the
\* dot-safe prefix rule)
StateDocMatches(k, p) ==
    IF has_star(p) THEN fnmatchcase(k, p)
    ELSE k = p \/ startswith(k, DottedPrefix(p))

\* state_doc: the matched entries in the order the call encountered them,
\* pattern after pattern, each in the iteration order of the registry
RECURSIVE MatchedInOrder(_)
MatchedInOrder(ps) ==
    IF ps = <<>> THEN <<>>
    ELSE SelectSeq(order, LAMBDA k : StateDocMatches(k, Head(ps)))
            \o MatchedInOrder(Tail(ps))

Encountered ==
    IF args = <<>> THEN order ELSE MatchedInOrder(args)

\* the first entry of module m, among those encountered, that carries a
\* module doc
FirstWithModuleDoc(enc, m) ==
    enc[CHOOSE i \in 1..Len(enc) :
           /\ ModuleSegment(enc[i]) = m
           /\ has_globals(registry, enc[i])
           /\ \A j \in 1..(i - 1) :
                 ~(ModuleSegment(enc[j]) = m /\ has_globals(registry, enc[j]))]

\* C8: state_doc (on qualified names, with non-empty patterns or none) maps
\* every matched function key to its own doc and, for every module owning a
\* matched entry that carries a module doc, maps the module name to the module
\* doc of the first such entry encountered; later entries do not overwrite it.
C8_ModuleDocCapturedOnce ==
    (/\ query = "state_doc"
     /\ \A k \in DOMAIN registry : HasDot(k)
     /\ \A i \in 1..Len(args) : args[i] # <<>>)
       => LET enc == Encountered
              withDoc == {f \in Elements(enc) : has_globals(registry, f)}
          IN  /\ \A f \in Elements(enc) :
                    /\ f \in DOMAIN result
                    /\ result[f] = <<"stripped">> \o registry[f].doc
              /\ \A m \in {ModuleSegment(f) : f \in withDoc} :
                    /\ m \in DOMAIN result
                    /\ result[m] = <<"stripped">>
                          \o registry[FirstWithModuleDoc(enc, m)].moduleDoc

\* C9: renderer_doc called with non-empty patterns returns only renderer keys
\* that match one of them: a glob match for a pattern with '*', else the key
\* equals the pattern or has its dotted prefix.
C9_RendererDocNarrows ==
    (/\ query = "renderer_doc"
     /\ args # <<>>
     /\ \A i \in 1..Len(args) : args[i] # <<>>)
       => \A k \in DOMAIN result :
             \E i \in 1..Len(args) :
                IF has_star(args[i]) THEN fnmatchcase(k, args[i])
                ELSE k \in DotSafeSelection({k}, args[i])

\* C10 as stated: in doc and list_functions the one pattern '' selects only
\* the keys that start with '.', so none when every module segment is
\* non-empty.
C10_EmptyPatternSelectsDotKeys ==
    (/\ query \in {"doc", "list_functions"}
     /\ args = << <<>> >>)
       => Returned = {k \in DOMAIN registry : startswith(k, <<".">>)}

\* C10 (amended): in doc and list_functions the one pattern '' selects every
\* key of the registry, as a call with no pattern does.
C10_EmptyPatternSelectsAll ==
    (/\ query \in {"doc", "list_functions"}
     /\ args = << <<>> >>)
       => /\ Returned = DOMAIN registry
          /\ query = "list_functions" => StrictlyAscending(result)

\* doc('') on a registry of two entries returned both
C10_Witness ==
    /\ query = "doc"
    /\ args = << <<>> >>
    /\ Cardinality(DOMAIN registry) >= 2
    /\ DOMAIN result = DOMAIN registry

\* a pattern without any glob metacharacter ('*', '?', '[')
IsPlain(p) ==
    \A i \in 1..Len(p) : p[i] \notin {"*", "?", "["}

\* C11 as stated: in list_functions, list_state_functions and
\* list_runner_functions one pattern p without glob metacharacter selects
\* exactly the keys k with k.startswith(p), no '.' being appended to p.
C11_RawPrefixScan ==
    (/\ query \in {"list_functions", "list_state_functions",
                   "list_runner_functions"}
     /\ Len(args) = 1
     /\ IsPlain(args[1]))
       => Elements(result) = {k \in DOMAIN registry : startswith(k, args[1])}

\* C11 (amended): in list_functions, list_state_functions and
\* list_runner_functions one non-empty pattern p without '*' selects exactly
\* the keys that start with the dotted prefix of p (p itself if it ends with
\* '.', else p + '.'): the trailing dot is appended here as in the doc queries.
C11_DottedPrefixScan ==
    (/\ query \in {"list_functions", "list_state_functions",
                   "list_runner_functions"}
     /\ Len(args) = 1
     /\ args[1] # <<>>
     /\ ~has_star(args[1]))
       => /\ Elements(result)
                = {k \in DOMAIN registry : startswith(k, DottedPrefix(args[1]))}
          /\ StrictlyAscending(result)

\* list_functions('a') on the keys a.b and ab.c listed a.b and not ab.c, which
\* starts with 'a' but not with 'a.'
C11_Witness ==
    /\ query = "list_functions"
    /\ args = << <<"a">> >>
    /\ DOMAIN registry = { <<"a", ".", "b">>, <<"a", "b", ".", "c">> }
    /\ result = << <<"a", ".", "b">> >>

\* the one-pattern argument lists made of the patterns of the call
SinglePatterns ==
    { <<args[i]>> : i \in 1..Len(args) }

\* mapping f is the union of the mappings of G: it has their keys and, under
\* each key, the value of every mapping of G that holds the key
IsUnionOf(f, G) ==
    /\ DOMAIN f = UNION {DOMAIN g : g \in G}
    /\ \A g \in G : \A k \in DOMAIN g : f[k] = g[k]

\* state_doc of the same registry, iterated in the same order, for each single
\* pattern of the call
StateDocOfSingles ==
    {state_doc(registry, order, s) : s \in SinglePatterns}

\* C12 as stated: for a non-empty pattern list, list_functions (as a set), doc
\* and state_doc (keys and values) return the union of what the same query
\* returns for each single pattern of the list.
C12_UnionOverPatterns ==
    /\ (query = "list_functions" /\ args # <<>>)
          => Elements(result)
                = UNION {Elements(list_functions(registry, s)) : s \in SinglePatterns}
    /\ (query = "doc" /\ args # <<>>)
          => IsUnionOf(result, {doc(registry, s) : s \in SinglePatterns})
    /\ (query = "state_doc" /\ args # <<>>)
          => IsUnionOf(result, StateDocOfSingles)

\* C12 (amended): for a non-empty pattern list, list_functions (as a set) and
\* doc (keys and values) return the union of the single-pattern results; the
\* keys of state_doc are the union of the single-pattern keys, its value under
\* a qualified name is the one every single-pattern result gives, and its
\* value under any other key (a module name) is the one some single-pattern
\* result gives.
C12_UnionButModuleDocs ==
    /\ (query = "list_functions" /\ args # <<>>)
          => Elements(result)
                = UNION {Elements(list_functions(registry, s)) : s \in SinglePatterns}
    /\ (query = "doc" /\ args # <<>>)
          => IsUnionOf(result, {doc(registry, s) : s \in SinglePatterns})
    /\ (query = "state_doc" /\ args # <<>>)
          => /\ DOMAIN result = UNION {DOMAIN g : g \in StateDocOfSingles}
             /\ \A k \in DOMAIN result :
                   /\ \E g \in StateDocOfSingles :
                         k \in DOMAIN g /\ result[k] = g[k]
                   /\ HasDot(k) =>
                         \A g \in StateDocOfSingles :
                            k \in DOMAIN g => result[k] = g[k]

\* state_doc called with two patterns without '*' returned a mapping that the
\* same call with the two patterns exchanged does not return
C12_Witness ==
    /\ query = "state_doc"
    /\ Len(args) = 2
    /\ ~has_star(args[1])
    /\ ~has_star(args[2])
    /\ result # state_doc(registry, order, <<args[2], args[1]>>)

====
